---- MODULE Spec2Model ----
(***************************************************************************)
(* Desktop window manager (src/src/scripts/desktop-manager.ts).            *)
(*                                                                         *)
(* The state is the closure state of the script (highestZ, openWindows,    *)
(* windowPositions, the per-target drag / resize sessions) together with   *)
(* the part of the DOM the script reads and writes (inline display, left,  *)
(* top, width, height, z-index, the classes "active" and "maximized", the  *)
(* taskbar items).                                                         *)
(*                                                                         *)
(* Units: inline left/top of a window are kept in HALF pixels, because the *)
(* cascade placement (bounds.width - wWidth) / 2 is fractional for an odd  *)
(* difference while offsetLeft / offsetTop are integers.  Everything else  *)
(* (sizes, pointer coordinates, folder positions, viewport) is in pixels.  *)
(* An inline style value is a sequence of length <= 1: << >> is the empty  *)
(* string '' (property not set), <<n>> is "n px".                          *)
(***************************************************************************)
EXTENDS Integers, Sequences, FiniteSets, TLC

\* ── Bounds of the model ──────────────────────────────────────────────────
\* The handlers are modelled without bounds (Spec); the specifications that are
\* checked explore them within a budget of focus changes (highestZ starts at
\* 100), of toggleMaximize calls and of session-starting pointer-downs.
MaxZ == 104              \* SpecWindows, SpecOps: highestZ stays <= MaxZ
MaxToggles == 1          \* SpecOps: toggleMaximize calls
MaxPointerZ == 104       \* SpecPointer: highestZ stays <= MaxPointerZ
MaxPointerToggles == 2   \* SpecPointer: toggleMaximize calls
MaxDowns == 1            \* SpecPointer: session-starting pointer-downs
MaxDefaultsZ == 105      \* SpecDefaults: highestZ stays <= MaxDefaultsZ, pending opens included
MaxBackground == 19      \* SpecCascade: windows of other panels already in the Registry
MaxCascadeOpens == 2     \* SpecCascade: focus changes on top of those
MaxSessionZ == 103       \* SpecSessions: highestZ stays <= MaxSessionZ
MaxSessionDowns == 2     \* SpecSessions: session-starting pointer-downs

\* ── Program constants ────────────────────────────────────────────────────
InitialZ == 100
MobileBreakpoint == 640
TaskbarHeight == 48
FallbackWidth == 600
FallbackHeight == 450
CascadeStep == 30
MinInsetX == 40
MinInsetY == 20
FolderSize == 80
WindowKeepRight == 50
WindowKeepLeft == 100
WindowKeepTop == 40
MinResizeWidth == 320
MinResizeHeight == 200
MoveThreshold == 3
FolderZ == 50

\* ── Environment: identities, viewports, pointer coordinates ─────────────
WindowIds == {"A", "B", "C"}
Viewports == {<<1000, 701>>, <<600, 800>>}
\* A pointer event is <<clientX, clientY, pointerId>>.
Pointers == {1, 2}
PointerDowns == {<<100, 100, 1>>}
PointerMoves == {<<103, 100, 1>>, <<100, 104, 1>>, <<5000, 5000, 1>>, <<-5000, -5000, 1>>}
\* The events of two pointers that are down at the same time.
SessionDowns == {<<100, 100, 1>>, <<300, 300, 2>>}
SessionMoves == {<<110, 100, 1>>, <<300, 320, 2>>}

\* An identity that an icon or a control carries but for which the page has no
\* panel: document.querySelector('.desktop-window[data-window-id=...]') is null.
MissingIds == {"X"}
\* The page may hold further panels; of those only the Registry record and
\* the taskbar item are modelled (identities "1", "2", ...).
BackgroundIds == {ToString(i) : i \in 1..(MaxBackground + 1)}
HasPanel(id) == id \in WindowIds \cup BackgroundIds

Unset == << >>
IsSet(v) == v # << >>
Val(v) == v[1]

Max(a, b) == IF a >= b THEN a ELSE b
Min(a, b) == IF a <= b THEN a ELSE b
Abs(a) == IF a >= 0 THEN a ELSE -a

VARIABLES
    vw, vh,              \* window.innerWidth, window.innerHeight
    highestZ,            \* let highestZ
    openWindows,         \* Map id -> {minimized}, as a sequence in insertion order
    windowPositions,     \* Map id -> {x, y, w, h}: << >> when absent, <<rec>> when present
    display,             \* windowEl.style.display
    left, top,           \* windowEl.style.left / top (half pixels)
    width, height,       \* windowEl.style.width / height (pixels)
    zIndex,              \* windowEl.style.zIndex (0: never assigned)
    active,              \* the windows carrying the class "active"
    maximized,           \* the windows carrying the class "maximized"
    taskbar,             \* the items of #taskbar-items, in document order
    folderDrag,          \* per folder: isDragging, hasMoved, startX, startY, origX, origY
    folderPos,           \* per folder: its left / top (pixels)
    windowDrag,          \* per window: isDragging, startX, startY, origX, origY
    windowResize,        \* per window: isResizing, startX, startY, startW, startH
    timers,              \* the identities whose startup setTimeout is pending
    capture,             \* per icon, title bar, resize handle: the pointer it has captured (0: none)
    downs,               \* count of the session-starting pointer-downs handled
    toggles              \* count of the toggleMaximize calls made

domVars == <<highestZ, openWindows, windowPositions, display, left, top, width, height,
             zIndex, active, maximized, taskbar>>
sessionVars == <<folderDrag, folderPos, windowDrag, windowResize, capture, downs>>
vars == <<vw, vh, timers, highestZ, openWindows, windowPositions, display, left, top, width,
          height, zIndex, active, maximized, taskbar, folderDrag, folderPos, windowDrag,
          windowResize, capture, downs, toggles>>

\* The script's window state as one record, so that handlers compose.
Cur ==
    [highestZ |-> highestZ, openWindows |-> openWindows,
     windowPositions |-> windowPositions, display |-> display, left |-> left,
     top |-> top, width |-> width, height |-> height, zIndex |-> zIndex,
     active |-> active, maximized |-> maximized, taskbar |-> taskbar]

Becomes(s) ==
    /\ highestZ' = s.highestZ
    /\ openWindows' = s.openWindows
    /\ windowPositions' = s.windowPositions
    /\ display' = s.display
    /\ left' = s.left
    /\ top' = s.top
    /\ width' = s.width
    /\ height' = s.height
    /\ zIndex' = s.zIndex
    /\ active' = s.active
    /\ maximized' = s.maximized
    /\ taskbar' = s.taskbar

\* ── Helpers ──────────────────────────────────────────────────────────────
isMobile == vw <= MobileBreakpoint

\* Mutation of clamp: the upper limit is not applied.
clamp_NoUpper(val, min, max) == Max(min, val)

clamp(val, min, max) == Max(min, Min(max, val))

getDesktopBounds == [width |-> vw, height |-> vh - TaskbarHeight]

\* Half pixels <-> pixels.  offsetLeft / offsetTop are integers: a fractional
\* used value is rounded (here: half up).
HalfPx(px) == 2 * px
RoundPx(hp) == (hp + 1) \div 2

\* ── Registry (the Map openWindows) ───────────────────────────────────────
RegIds(reg) == {reg[i].id : i \in 1..Len(reg)}
RegIndex(reg, id) == CHOOSE i \in 1..Len(reg) : reg[i].id = id
RegHas(reg, id) == id \in RegIds(reg)
RegMinimized(reg, id) == reg[RegIndex(reg, id)].minimized
\* Map.set: an existing key keeps its place, a new key is appended.
RegSet(reg, id, min) ==
    IF RegHas(reg, id)
    THEN [reg EXCEPT ![RegIndex(reg, id)].minimized = min]
    ELSE Append(reg, [id |-> id, minimized |-> min])
\* Map.delete
RegDelete(reg, id) == SelectSeq(reg, LAMBDA e : e.id # id)

\* ── Layout the script reads back (offsetLeft, offsetTop, offsetWidth, ...) ─
\* A panel that is not displayed has all offsets 0.  The class "maximized"
\* makes the panel fill the work area.  Without an inline size the panel has
\* its stylesheet size, without an inline position it sits at the origin.
offsetWidth(s, id) ==
    IF s.display[id] # "flex" THEN 0
    ELSE IF id \in s.maximized THEN vw
    ELSE IF IsSet(s.width[id]) THEN Val(s.width[id]) ELSE FallbackWidth
offsetHeight(s, id) ==
    IF s.display[id] # "flex" THEN 0
    ELSE IF id \in s.maximized THEN vh - TaskbarHeight
    ELSE IF IsSet(s.height[id]) THEN Val(s.height[id]) ELSE FallbackHeight
offsetLeft(s, id) ==
    IF s.display[id] # "flex" THEN 0
    ELSE IF id \in s.maximized THEN 0
    ELSE IF IsSet(s.left[id]) THEN RoundPx(Val(s.left[id])) ELSE 0
offsetTop(s, id) ==
    IF s.display[id] # "flex" THEN 0
    ELSE IF id \in s.maximized THEN 0
    ELSE IF IsSet(s.top[id]) THEN RoundPx(Val(s.top[id])) ELSE 0

\* Mutation of updateTaskbar: minimized windows get no item.
updateTaskbar_VisibleOnly(s) ==
    LET shown == SelectSeq(s.openWindows, LAMBDA e : ~e.minimized)
    IN  [s EXCEPT !.taskbar =
            [i \in 1..Len(shown) |-> [id |-> shown[i].id, active |-> TRUE]]]

\* ── Taskbar ──────────────────────────────────────────────────────────────
\* container.innerHTML = ''; one button per Map entry, in Map order, with
\* className 'taskbar-item' + (state.minimized ? '' : ' active').
updateTaskbar(s) ==
    [s EXCEPT !.taskbar =
        [i \in 1..Len(s.openWindows) |->
            [id |-> s.openWindows[i].id, active |-> ~s.openWindows[i].minimized]]]

\* The class toggling by text match is overwritten by the rebuild that ends
\* the function: what is left is the rebuilt list.
updateTaskbarActiveState(s, activeId) == updateTaskbar(s)

\* Mutation of bringToFront: the class "active" is not removed from the others.
bringToFront_KeepActive(s, id) ==
    updateTaskbarActiveState(
        [s EXCEPT !.highestZ = s.highestZ + 1,
                  !.zIndex[id] = s.highestZ + 1,
                  !.active = s.active \cup {id}],
        id)

\* ── Focus / z-index ──────────────────────────────────────────────────────
bringToFront(s, id) ==
    updateTaskbarActiveState(
        [s EXCEPT !.highestZ = s.highestZ + 1,
                  !.zIndex[id] = s.highestZ + 1,
                  !.active = {id}],
        id)

\* Mutation of CascadeX: the cascade offset is dropped.
CascadeX_NoStep(s, id) ==
    LET wWidth == IF offsetWidth(s, id) # 0 THEN offsetWidth(s, id) ELSE FallbackWidth
    IN  Max(HalfPx(MinInsetX), getDesktopBounds.width - wWidth)

\* ── Open window ──────────────────────────────────────────────────────────
CascadeX(s, id) ==
    LET wWidth == IF offsetWidth(s, id) # 0 THEN offsetWidth(s, id) ELSE FallbackWidth
    IN  Max(HalfPx(MinInsetX),
            (getDesktopBounds.width - wWidth) + HalfPx(Len(s.openWindows) * CascadeStep))
CascadeY(s, id) ==
    LET wHeight == IF offsetHeight(s, id) # 0 THEN offsetHeight(s, id) ELSE FallbackHeight
    IN  Max(HalfPx(MinInsetY),
            (getDesktopBounds.height - wHeight) + HalfPx(Len(s.openWindows) * CascadeStep))

PositionWindow(s, id) ==
    IF isMobile THEN s
    ELSE IF IsSet(s.windowPositions[id])
    THEN [s EXCEPT !.left[id] = <<HalfPx(Val(s.windowPositions[id]).x)>>,
                   !.top[id] = <<HalfPx(Val(s.windowPositions[id]).y)>>]
    ELSE [s EXCEPT !.left[id] = <<CascadeX(s, id)>>,
                   !.top[id] = <<CascadeY(s, id)>>]

openWindow(s, id) ==
    IF ~HasPanel(id) THEN s
    ELSE IF RegHas(s.openWindows, id) /\ RegMinimized(s.openWindows, id)
    THEN updateTaskbar(bringToFront(
            [s EXCEPT !.display[id] = "flex",
                      !.openWindows = RegSet(s.openWindows, id, FALSE)], id))
    ELSE IF s.display[id] = "flex"
    THEN bringToFront(s, id)
    ELSE LET p == PositionWindow(s, id)
         IN  updateTaskbar(bringToFront(
                [p EXCEPT !.display[id] = "flex",
                          !.openWindows = RegSet(p.openWindows, id, FALSE)], id))

\* Mutation of closeWindow: the saved geometry is dropped with the record.
closeWindow_ForgetGeometry(s, id) ==
    updateTaskbar(
        [s EXCEPT !.display[id] = "none",
                  !.maximized = s.maximized \ {id},
                  !.windowPositions[id] = << >>,
                  !.openWindows = RegDelete(s.openWindows, id)])

\* ── Close window ─────────────────────────────────────────────────────────
closeWindow(s, id) ==
    IF ~HasPanel(id) THEN s
    ELSE updateTaskbar(
            [s EXCEPT !.display[id] = "none",
                      !.maximized = s.maximized \ {id},
                      !.openWindows = RegDelete(s.openWindows, id)])

\* Mutation of minimizeWindow: the panel stays displayed.
minimizeWindow_KeepDisplay(s, id) ==
    updateTaskbar([s EXCEPT !.openWindows = RegSet(s.openWindows, id, TRUE)])

\* Mutation of minimizeWindow: the taskbar is not rebuilt.
minimizeWindow_NoRefresh(s, id) ==
    [s EXCEPT !.display[id] = "none",
              !.openWindows = RegSet(s.openWindows, id, TRUE)]

\* Mutation of minimizeWindow: no check that the panel exists.
minimizeWindow_NoPanelCheck(s, id) ==
    updateTaskbar(
        [s EXCEPT !.display = [w \in WindowIds |-> IF w = id THEN "none" ELSE s.display[w]],
                  !.openWindows = RegSet(s.openWindows, id, TRUE)])

\* ── Minimize window ──────────────────────────────────────────────────────
minimizeWindow(s, id) ==
    IF ~HasPanel(id) THEN s
    ELSE updateTaskbar(
            [s EXCEPT !.display[id] = "none",
                      !.openWindows = RegSet(s.openWindows, id, TRUE)])

\* ── Maximize / restore window ────────────────────────────────────────────
toggleMaximize(s, id) ==
    IF ~HasPanel(id) THEN s
    ELSE IF id \in s.maximized
    THEN LET t == [s EXCEPT !.maximized = s.maximized \ {id}]
         IN  IF IsSet(s.windowPositions[id])
             THEN LET saved == Val(s.windowPositions[id])
                  IN  [t EXCEPT !.left[id] = <<HalfPx(saved.x)>>,
                                !.top[id] = <<HalfPx(saved.y)>>,
                                !.width[id] = saved.w,
                                !.height[id] = saved.h]
             ELSE t
    ELSE [s EXCEPT !.windowPositions[id] =
                <<[x |-> offsetLeft(s, id),
                   y |-> offsetTop(s, id),
                   w |-> IF IsSet(s.width[id]) THEN s.width[id] ELSE <<offsetWidth(s, id)>>,
                   h |-> IF IsSet(s.height[id]) THEN s.height[id]
                         ELSE <<offsetHeight(s, id)>>]>>,
                   !.maximized = s.maximized \cup {id}]


\* ── Folder icons ─────────────────────────────────────────────────────────
FolderIndex(id) == CASE id = "A" -> 0 [] id = "B" -> 1 [] OTHER -> 2
MobileCols == 4
MobileCellH == 100
MobileStartY == 20
\* Author-set icon positions on a wide viewport (one column of icons).
FolderHome(id) == [left |-> 20, top |-> 20 + MobileCellH * FolderIndex(id), z |-> 0]
\* arrangeFoldersForMobile: a grid of MobileCols columns (vw is a multiple of
\* 2 * MobileCols for the narrow viewport of Viewports, so the cell arithmetic
\* is exact).
arrangeFoldersForMobile(id) ==
    LET cellW == vw \div MobileCols
        col == FolderIndex(id) % MobileCols
        row == FolderIndex(id) \div MobileCols
    IN  [left |-> col * cellW + (cellW - FolderSize) \div 2,
         top |-> MobileStartY + row * MobileCellH, z |-> 0]

IdleFolder == [isDragging |-> FALSE, hasMoved |-> FALSE,
               startX |-> 0, startY |-> 0, origX |-> 0, origY |-> 0]
IdleDrag == [isDragging |-> FALSE, startX |-> 0, startY |-> 0, origX |-> 0, origY |-> 0]
IdleResize == [isResizing |-> FALSE, startX |-> 0, startY |-> 0, startW |-> 0, startH |-> 0]

\* ── Pointer capture ──────────────────────────────────────────────────────
\* el.setPointerCapture(e.pointerId) on an icon, a title bar or a resize
\* handle; the capture ends with the pointer-up of that pointer.
Kinds == {"folder", "titlebar", "handle"}
NoCapture == [k \in Kinds |-> [id \in WindowIds |-> 0]]
Holds(ptr) == \E k \in Kinds, id \in WindowIds : capture[k][id] = ptr
Release(ptr) ==
    [k \in Kinds |-> [id \in WindowIds |-> IF capture[k][id] = ptr THEN 0 ELSE capture[k][id]]]

\* ── Initial state: script loaded, init() has run, every panel hidden ─────
\* defaults: the identities of the icons marked data-open-default="true", for
\* each of which openDefaults has scheduled an open.
\* reg: the Registry, z: the focus counter (after construction: empty, 100).
Page(defaults, reg, z) ==
    /\ \E v \in Viewports : vw = v[1] /\ vh = v[2]
    /\ timers = defaults
    /\ highestZ = z
    /\ openWindows = reg
    /\ windowPositions = [id \in WindowIds |-> << >>]
    /\ display = [id \in WindowIds |-> "none"]
    /\ left = [id \in WindowIds |-> Unset]
    /\ top = [id \in WindowIds |-> Unset]
    /\ width = [id \in WindowIds |-> Unset]
    /\ height = [id \in WindowIds |-> Unset]
    /\ zIndex = [id \in WindowIds |-> 0]
    /\ active = {}
    /\ maximized = {}
    /\ taskbar = [i \in 1..Len(reg) |-> [id |-> reg[i].id, active |-> ~reg[i].minimized]]
    /\ folderDrag = [id \in WindowIds |-> IdleFolder]
    /\ folderPos = [id \in WindowIds |->
                        IF isMobile THEN arrangeFoldersForMobile(id) ELSE FolderHome(id)]
    /\ windowDrag = [id \in WindowIds |-> IdleDrag]
    /\ windowResize = [id \in WindowIds |-> IdleResize]
    /\ capture = NoCapture
    /\ downs = 0
    /\ toggles = 0

Loaded(defaults) == Page(defaults, << >>, InitialZ)

\* A page without default-marked icons.
Init == Loaded({})

\* The state after the windows of n other panels have been opened one after
\* the other, A, B and C still untouched.
BackgroundOpen(n) ==
    Page({}, [i \in 1..n |-> [id |-> ToString(i), minimized |-> FALSE]], InitialZ + n)
InitCascade == \E n \in 0..MaxBackground : BackgroundOpen(n)

\* A page on which the icon of A is default-marked.
DefaultIds == {"A"}
InitDefaults == Loaded(DefaultIds)

\* ── Startup auto-open: the setTimeout callback of openDefaults ──────────
\* Mutation of the callback: it opens only a window that has no record.
TimerFire_OnlyIfClosed(id) ==
    /\ id \in timers
    /\ timers' = timers \ {id}
    /\ IF RegHas(openWindows, id) THEN UNCHANGED domVars ELSE Becomes(openWindow(Cur, id))
    /\ UNCHANGED <<vw, vh, toggles, sessionVars>>

TimerFire(id) ==
    /\ id \in timers
    /\ timers' = timers \ {id}
    /\ Becomes(openWindow(Cur, id))
    /\ UNCHANGED <<vw, vh, toggles, sessionVars>>

\* ── Folder events ────────────────────────────────────────────────────────
\* dblclick on a folder icon
FolderDblClick(id) ==
    /\ Becomes(openWindow(Cur, id))
    /\ UNCHANGED <<vw, vh, timers, toggles, sessionVars>>

\* click on a folder icon
FolderClick(id) ==
    /\ IF isMobile \/ ~folderDrag[id].hasMoved
       THEN IF isMobile THEN Becomes(openWindow(Cur, id)) ELSE UNCHANGED domVars
       ELSE UNCHANGED domVars
    /\ UNCHANGED <<vw, vh, timers, toggles, sessionVars>>

\* pointerdown on a folder icon
FolderPointerDown(id, p) ==
    /\ ~Holds(p[3])
    /\ ~isMobile
    /\ folderDrag' = [folderDrag EXCEPT ![id] =
            [isDragging |-> TRUE, hasMoved |-> FALSE, startX |-> p[1], startY |-> p[2],
             origX |-> folderPos[id].left, origY |-> folderPos[id].top]]
    /\ folderPos' = [folderPos EXCEPT ![id].z = FolderZ]
    /\ capture' = [capture EXCEPT !.folder[id] = p[3]]
    /\ downs' = downs + 1
    /\ UNCHANGED <<vw, vh, timers, toggles, domVars, windowDrag, windowResize>>

\* ── Window pointer-downs ─────────────────────────────────────────────────
\* pointerdown on the title bar (not on a control button): the title bar's
\* listener, then, by bubbling, the panel's own listener (bringToFront).
TitlebarPointerDown(id, p) ==
    /\ ~Holds(p[3])
    /\ display[id] = "flex"
    /\ IF isMobile \/ id \in maximized
       THEN /\ Becomes(bringToFront(Cur, id))
            /\ UNCHANGED <<windowDrag, capture, downs>>
       ELSE /\ capture' = [capture EXCEPT !.titlebar[id] = p[3]]
            /\ windowDrag' = [windowDrag EXCEPT ![id] =
                    [isDragging |-> TRUE, startX |-> p[1], startY |-> p[2],
                     origX |-> offsetLeft(Cur, id), origY |-> offsetTop(Cur, id)]]
            /\ downs' = downs + 1
            /\ Becomes(bringToFront(bringToFront(Cur, id), id))
    /\ UNCHANGED <<vw, vh, timers, toggles, folderDrag, folderPos, windowResize>>

\* pointerdown anywhere else on the panel (body, control button)
WindowPointerDown(id) ==
    /\ display[id] = "flex"
    /\ Becomes(bringToFront(Cur, id))
    /\ UNCHANGED <<vw, vh, timers, toggles, sessionVars>>

\* pointerdown on the resize handle: on a narrow viewport the listener returns
\* before stopPropagation, so the panel's listener still runs.
ResizePointerDown(id, p) ==
    /\ ~Holds(p[3])
    /\ display[id] = "flex"
    /\ IF isMobile
       THEN /\ Becomes(bringToFront(Cur, id))
            /\ UNCHANGED <<windowResize, capture, downs>>
       ELSE /\ capture' = [capture EXCEPT !.handle[id] = p[3]]
            /\ windowResize' = [windowResize EXCEPT ![id] =
                    [isResizing |-> TRUE, startX |-> p[1], startY |-> p[2],
                     startW |-> offsetWidth(Cur, id), startH |-> offsetHeight(Cur, id)]]
            /\ downs' = downs + 1
            /\ UNCHANGED domVars
    /\ UNCHANGED <<vw, vh, timers, toggles, folderDrag, folderPos, windowDrag>>


\* ── pointermove (document listeners of every session) ───────────────────
AnySession ==
    \E id \in WindowIds :
        folderDrag[id].isDragging \/ windowDrag[id].isDragging \/ windowResize[id].isResizing

\* Mutation of onPointerMove: the threshold is reached, not exceeded.
FolderMoved_AtThreshold(f, p) ==
    IF ~f.isDragging THEN f
    ELSE [f EXCEPT !.hasMoved =
            \/ f.hasMoved
            \/ Abs(p[1] - f.startX) >= MoveThreshold
            \/ Abs(p[2] - f.startY) >= MoveThreshold]

\* initFolderDrag.onPointerMove for one folder
FolderMoved(f, p) ==
    IF ~f.isDragging THEN f
    ELSE [f EXCEPT !.hasMoved =
            \/ f.hasMoved
            \/ Abs(p[1] - f.startX) > MoveThreshold
            \/ Abs(p[2] - f.startY) > MoveThreshold]
FolderMovePos(f, pos, p) ==
    IF ~f.isDragging THEN pos
    ELSE [pos EXCEPT
            !.left = clamp(f.origX + (p[1] - f.startX), 0,
                           getDesktopBounds.width - FolderSize),
            !.top = clamp(f.origY + (p[2] - f.startY), 0,
                          getDesktopBounds.height - FolderSize)]

\* initWindowDrag pointermove for one window
WindowDragLeft(s, id, p) ==
    LET d == windowDrag[id]
    IN  IF ~d.isDragging THEN s.left[id]
        ELSE <<HalfPx(clamp(d.origX + (p[1] - d.startX),
                            -offsetWidth(s, id) + WindowKeepLeft,
                            getDesktopBounds.width - WindowKeepRight))>>
WindowDragTop(s, id, p) ==
    LET d == windowDrag[id]
    IN  IF ~d.isDragging THEN s.top[id]
        ELSE <<HalfPx(clamp(d.origY + (p[2] - d.startY), 0,
                            getDesktopBounds.height - WindowKeepTop))>>

\* Mutation of the resize pointermove: no floor on the width.
ResizeWidth_NoFloor(s, id, p) ==
    LET r == windowResize[id]
    IN  IF ~r.isResizing THEN s.width[id]
        ELSE <<r.startW + (p[1] - r.startX)>>

\* initWindowResize pointermove for one window
ResizeWidth(s, id, p) ==
    LET r == windowResize[id]
    IN  IF ~r.isResizing THEN s.width[id]
        ELSE <<Max(MinResizeWidth, r.startW + (p[1] - r.startX))>>
ResizeHeight(s, id, p) ==
    LET r == windowResize[id]
    IN  IF ~r.isResizing THEN s.height[id]
        ELSE <<Max(MinResizeHeight, r.startH + (p[2] - r.startY))>>

\* One pointermove event reaches every listener on document: the folder
\* listeners, then the window-drag listeners, then the resize listeners.
PointerMove(p) ==
    /\ AnySession
    /\ folderDrag' = [id \in WindowIds |-> FolderMoved(folderDrag[id], p)]
    /\ folderPos' = [id \in WindowIds |-> FolderMovePos(folderDrag[id], folderPos[id], p)]
    /\ left' = [id \in WindowIds |-> WindowDragLeft(Cur, id, p)]
    /\ top' = [id \in WindowIds |-> WindowDragTop(Cur, id, p)]
    /\ width' = [id \in WindowIds |-> ResizeWidth(Cur, id, p)]
    /\ height' = [id \in WindowIds |-> ResizeHeight(Cur, id, p)]
    /\ UNCHANGED <<vw, vh, timers, toggles, highestZ, openWindows, windowPositions, display, zIndex,
                   active, maximized, taskbar, windowDrag, windowResize, capture, downs>>

\* ── pointerup (document listeners of every session) ─────────────────────
\* initWindowDrag pointerup: commits the panel's position and inline size
DragCommit(s, id) ==
    IF ~windowDrag[id].isDragging THEN s.windowPositions[id]
    ELSE <<[x |-> offsetLeft(s, id), y |-> offsetTop(s, id),
            w |-> s.width[id], h |-> s.height[id]]>>

PointerUp(ptr) ==
    /\ AnySession \/ Holds(ptr)
    /\ capture' = Release(ptr)
    /\ folderDrag' = [id \in WindowIds |-> [folderDrag[id] EXCEPT !.isDragging = FALSE]]
    /\ windowPositions' = [id \in WindowIds |-> DragCommit(Cur, id)]
    /\ windowDrag' = [id \in WindowIds |-> [windowDrag[id] EXCEPT !.isDragging = FALSE]]
    /\ windowResize' = [id \in WindowIds |->
                            [windowResize[id] EXCEPT !.isResizing = FALSE]]
    /\ UNCHANGED <<vw, vh, timers, toggles, highestZ, openWindows, display, left, top, width, height,
                   zIndex, active, maximized, taskbar, folderPos, downs>>

\* ── Window controls ──────────────────────────────────────────────────────
Actions == {"close", "minimize", "maximize"}

\* the click listener of a .window-btn
ControlAction(s, id, action) ==
    CASE action = "close" -> closeWindow(s, id)
      [] action = "minimize" -> minimizeWindow(s, id)
      [] OTHER -> toggleMaximize(s, id)

Control(id, action) ==
    /\ Becomes(ControlAction(Cur, id, action))
    /\ toggles' = IF action = "maximize" THEN toggles + 1 ELSE toggles
    /\ UNCHANGED <<vw, vh, timers, sessionVars>>

\* A control button can be activated while its panel is displayed.
ControlClick(id, action) ==
    /\ display[id] = "flex"
    /\ Control(id, action)

\* Mutation of the item's click listener: a focused window is not minimized.
TaskbarItemAction_NoMinimize(s, id) ==
    IF RegMinimized(s.openWindows, id) THEN openWindow(s, id)
    ELSE bringToFront(s, id)

\* ── Taskbar item click ───────────────────────────────────────────────────
\* The listener closes over the Map entry of its window; every change of the
\* Map is followed by a rebuild, so the entry is the current one.
TaskbarItemAction(s, id) ==
    IF RegMinimized(s.openWindows, id) THEN openWindow(s, id)
    ELSE IF id \in s.active THEN minimizeWindow(s, id)
    ELSE bringToFront(s, id)

TaskbarClick(i) ==
    /\ i \in 1..Len(taskbar)
    /\ Becomes(TaskbarItemAction(Cur, taskbar[i].id))
    /\ UNCHANGED <<vw, vh, timers, toggles, sessionVars>>

\* ── Specifications ───────────────────────────────────────────────────────
\* Every event on every target.
Next ==
    \/ \E id \in WindowIds : FolderDblClick(id)
    \/ \E id \in WindowIds : FolderClick(id)
    \/ \E id \in WindowIds, p \in PointerDowns \cup SessionDowns : FolderPointerDown(id, p)
    \/ \E id \in WindowIds, p \in PointerDowns \cup SessionDowns : TitlebarPointerDown(id, p)
    \/ \E id \in WindowIds : WindowPointerDown(id)
    \/ \E id \in WindowIds, p \in PointerDowns \cup SessionDowns : ResizePointerDown(id, p)
    \/ \E p \in PointerMoves \cup SessionMoves : PointerMove(p)
    \/ \E ptr \in Pointers : PointerUp(ptr)
    \/ \E id \in WindowIds, action \in Actions : ControlClick(id, action)
    \/ \E i \in 1..Cardinality(WindowIds) : TaskbarClick(i)
    \/ \E id \in WindowIds : TimerFire(id)

Spec == (\E defaults \in SUBSET WindowIds : Loaded(defaults)) /\ [][Next]_vars

\* The budget a step must stay within.
Within(z, t, d) == highestZ' <= z /\ toggles' <= t /\ downs' <= d

\* Opening, closing, minimizing, restoring and focusing every window, without
\* maximize and without drag or resize sessions.
WindowsBudget == Within(MaxZ, 0, 0)
WindowActions == {"close", "minimize"}

NextWindows ==
    \/ \E id \in WindowIds : FolderDblClick(id) /\ WindowsBudget
    \/ \E id \in WindowIds : FolderClick(id) /\ WindowsBudget
    \/ \E id \in WindowIds : WindowPointerDown(id) /\ WindowsBudget
    \/ \E id \in WindowIds, action \in WindowActions : ControlClick(id, action) /\ WindowsBudget
    \/ \E i \in 1..Cardinality(WindowIds) : TaskbarClick(i) /\ WindowsBudget

SpecWindows == Init /\ [][NextWindows]_vars

\* Every event, delivered to the icon, panel and taskbar item of one identity.
PointerIds == {"A"}
PointerBudget == Within(MaxPointerZ, MaxPointerToggles, MaxDowns)

NextPointer ==
    \/ \E id \in PointerIds : FolderDblClick(id) /\ PointerBudget
    \/ \E id \in PointerIds : FolderClick(id) /\ PointerBudget
    \/ \E id \in PointerIds, p \in PointerDowns : FolderPointerDown(id, p) /\ PointerBudget
    \/ \E id \in PointerIds, p \in PointerDowns : TitlebarPointerDown(id, p) /\ PointerBudget
    \/ \E id \in PointerIds : WindowPointerDown(id) /\ PointerBudget
    \/ \E id \in PointerIds, p \in PointerDowns : ResizePointerDown(id, p) /\ PointerBudget
    \/ \E p \in PointerMoves : PointerMove(p) /\ PointerBudget
    \/ \E p \in PointerDowns : PointerUp(p[3]) /\ PointerBudget
    \/ \E id \in PointerIds, action \in Actions : ControlClick(id, action) /\ PointerBudget
    \/ \E i \in 1..Cardinality(WindowIds) : TaskbarClick(i) /\ PointerBudget

SpecPointer == Init /\ [][NextPointer]_vars

\* The lifecycle operations called directly, whatever the panel shows: a click
\* event dispatched on a control of a hidden panel reaches the same listener.
OpIds == {"A", "B"}
OpsBudget == Within(MaxZ, MaxToggles, 0)

NextOps ==
    \/ \E id \in OpIds : FolderDblClick(id) /\ OpsBudget
    \/ \E id \in OpIds : FolderClick(id) /\ OpsBudget
    \/ \E id \in OpIds : WindowPointerDown(id) /\ OpsBudget
    \/ \E id \in OpIds, action \in Actions : Control(id, action) /\ OpsBudget
    \/ \E i \in 1..Cardinality(WindowIds) : TaskbarClick(i) /\ OpsBudget

SpecOps == Init /\ [][NextOps]_vars

\* Two pointers at once: the icons of A and B, the title bar and the resize
\* handle of A.
SessionFolders == {"A", "B"}
SessionBudget == Within(MaxSessionZ, 0, MaxSessionDowns)

NextSessions ==
    \/ \E id \in PointerIds : FolderDblClick(id) /\ SessionBudget
    \/ \E id \in SessionFolders, p \in SessionDowns : FolderPointerDown(id, p) /\ SessionBudget
    \/ \E id \in PointerIds, p \in SessionDowns : TitlebarPointerDown(id, p) /\ SessionBudget
    \/ \E id \in PointerIds, p \in SessionDowns : ResizePointerDown(id, p) /\ SessionBudget
    \/ \E p \in SessionMoves : PointerMove(p) /\ SessionBudget
    \/ \E ptr \in Pointers : PointerUp(ptr) /\ SessionBudget

SpecSessions == Init /\ [][NextSessions]_vars

\* Startup with default-marked icons: the user acts on the windows while the
\* scheduled opens are pending and afterwards.  A user step leaves room in the
\* budget for the opens still pending; the timer callbacks run (weak fairness:
\* a pending setTimeout callback stays runnable until it has run).
DefaultsBudget ==
    /\ highestZ' + Cardinality(timers') <= MaxDefaultsZ
    /\ toggles' <= MaxToggles
    /\ downs' <= 0

NextDefaults ==
    \/ \E id \in DefaultIds : FolderDblClick(id) /\ DefaultsBudget
    \/ \E id \in DefaultIds : FolderClick(id) /\ DefaultsBudget
    \/ \E id \in DefaultIds, action \in Actions : ControlClick(id, action) /\ DefaultsBudget
    \/ \E i \in 1..Cardinality(WindowIds) : TaskbarClick(i) /\ DefaultsBudget
    \/ \E id \in DefaultIds : TimerFire(id) /\ DefaultsBudget

SpecDefaults ==
    /\ InitDefaults
    /\ [][NextDefaults]_vars
    /\ \A id \in DefaultIds : WF_vars(TimerFire(id) /\ DefaultsBudget)

\* Opening and closing A and B on top of a Registry that already holds the
\* windows of other panels.
CascadeBudget ==
    /\ highestZ' <= InitialZ + Len(SelectSeq(openWindows', LAMBDA e : e.id \in BackgroundIds))
                              + MaxCascadeOpens
    /\ toggles' <= 0
    /\ downs' <= 0

NextCascade ==
    \/ \E id \in OpIds : FolderDblClick(id) /\ CascadeBudget
    \/ \E id \in OpIds, action \in WindowActions : ControlClick(id, action) /\ CascadeBudget

SpecCascade == InitCascade /\ [][NextCascade]_vars

\* The operations called with an identity that has a panel and with one that
\* has none (an icon whose data-folder-id matches no panel, a control of a
\* panel without data-window-id).
MissingOpIds == {"A"} \cup MissingIds

NextMissing ==
    \/ \E id \in MissingOpIds : FolderDblClick(id) /\ OpsBudget
    \/ \E id \in MissingOpIds, action \in Actions : Control(id, action) /\ OpsBudget
    \/ \E i \in 1..Cardinality(WindowIds) : TaskbarClick(i) /\ OpsBudget

SpecMissing == Init /\ [][NextMissing]_vars

\* ── Vocabulary of the properties ─────────────────────────────────────────
isOpen(id) == RegHas(openWindows, id)
isMinimized(id) == isOpen(id) /\ RegMinimized(openWindows, id)
IsClosed(id) == ~isOpen(id) /\ display[id] # "flex"
IsOpenVisible(id) == isOpen(id) /\ ~RegMinimized(openWindows, id) /\ display[id] = "flex"
RegistryIds == [i \in 1..Len(openWindows) |-> openWindows[i].id]
TaskbarIds == [i \in 1..Len(taskbar) |-> taskbar[i].id]

\* ── C1 ───────────────────────────────────────────────────────────────────
\* C1 as stated: on a non-narrow viewport a window that was opened and closed,
\* with no SavedGeometry record (no drag commit, no maximize), reopens at the
\* position of its earlier placement, whatever happened to the other windows.
\* Without a record and without a drag the inline position of a closed panel
\* is the one its last placement wrote, so the claim says that the reopening
\* step leaves left / top as they are.
C1_ReopenAtFirstPlacement ==
    [][\A id \in WindowIds :
          (/\ FolderDblClick(id)
           /\ ~isMobile
           /\ IsClosed(id)
           /\ IsSet(left[id])
           /\ ~IsSet(windowPositions[id]))
          => (left'[id] = left[id] /\ top'[id] = top[id])]_vars

\* C1 amended: close(id) leaves isOpen(id) false; open(id) never writes
\* SavedGeometry; open(id) from Closed on a non-narrow viewport places the
\* window at the saved x, y when a record exists and otherwise at the cascade
\* position for the number n of Registry records at that moment,
\* x = max(40, (W - 600) / 2 + 30 n), y = max(20, (H - 48 - 450) / 2 + 30 n)
\* (written here in half pixels).
C1_ReopenCascade ==
    [][\A id \in WindowIds :
          /\ ControlClick(id, "close") => ~RegHas(openWindows', id)
          /\ FolderDblClick(id) =>
                /\ windowPositions' = windowPositions
                /\ (~isMobile /\ IsClosed(id)) =>
                      IF IsSet(windowPositions[id])
                      THEN /\ left'[id] = <<2 * windowPositions[id][1].x>>
                           /\ top'[id] = <<2 * windowPositions[id][1].y>>
                      ELSE /\ left'[id] = <<Max(80, (vw - 600) + 60 * Len(openWindows))>>
                           /\ top'[id] = <<Max(40, (vh - 48 - 450) + 60 * Len(openWindows))>>]_vars

\* A was open when B was first opened (B sits one cascade step from the
\* centre and C was never opened), A is behind B in the Registry, so A was
\* closed and reopened; it has no SavedGeometry and sits at the one-step
\* cascade position, not at the centre where its first open placed it.
C1_Witness ==
    /\ ~isMobile
    /\ RegistryIds = <<"B", "A">>
    /\ zIndex["C"] = 0
    /\ left["B"] = <<(vw - 600) + 60>>
    /\ ~IsSet(windowPositions["A"])
    /\ left["A"] = <<(vw - 600) + 60>>
    /\ display["A"] = "flex"

\* ── C2 ───────────────────────────────────────────────────────────────────
\* C2: every bringToFront (through open, a pointer-down on the panel, a
\* taskbar click) leaves its target the only window marked active and gives
\* it a stacking value greater than highestZ and than every value assigned
\* before; no other window's value changes, no value exceeds highestZ, and
\* highestZ never decreases.
C2_FocusStep(id) ==
    /\ active' = {id}
    /\ highestZ' > highestZ
    /\ zIndex'[id] = highestZ'
    /\ \A w \in WindowIds :
          /\ zIndex[w] <= highestZ
          /\ zIndex[w] < zIndex'[id]
          /\ w # id => zIndex'[w] = zIndex[w]

C2_BringToFront ==
    [][/\ highestZ' >= highestZ
       /\ highestZ' # highestZ => \E id \in WindowIds : C2_FocusStep(id)
       /\ \A id \in WindowIds :
             (FolderDblClick(id) \/ WindowPointerDown(id)) => C2_FocusStep(id)
       /\ \A i \in 1..Len(taskbar) :
             (TaskbarClick(i) /\ (isMinimized(taskbar[i].id) \/ taskbar[i].id \notin active))
             => C2_FocusStep(taskbar[i].id)]_vars

\* A, B, C were opened in this order and B was then brought to the front.
C2_Witness ==
    /\ active = {"B"}
    /\ zIndex = [id \in WindowIds |->
                    CASE id = "A" -> 101 [] id = "B" -> 104 [] OTHER -> 103]
    /\ highestZ = 104

\* ── C3 ───────────────────────────────────────────────────────────────────
\* Where the panel is laid out when it is not maximized (position in half
\* pixels, size in pixels).
ShownPos(v) == IF IsSet(v) THEN Val(v) ELSE 0
ShownWidth(v) == IF IsSet(v) THEN Val(v) ELSE FallbackWidth
ShownHeight(v) == IF IsSet(v) THEN Val(v) ELSE FallbackHeight

\* C3: toggleMaximize(id) twice on an Open-Visible, not maximized window
\* restores exactly the position and size it had before the first call.  The
\* first call leaves the inline geometry as it is and the second call puts the
\* window, no longer maximized, back at exactly that geometry.
C3_ToggleTwiceRestores ==
    [][\A id \in WindowIds :
          /\ (ControlClick(id, "maximize") /\ IsOpenVisible(id) /\ id \notin maximized)
             => /\ id \in maximized'
                /\ left'[id] = left[id] /\ top'[id] = top[id]
                /\ width'[id] = width[id] /\ height'[id] = height[id]
          /\ (ControlClick(id, "maximize") /\ IsOpenVisible(id) /\ id \in maximized)
             => /\ id \notin maximized'
                /\ ShownPos(left'[id]) = ShownPos(left[id])
                /\ ShownPos(top'[id]) = ShownPos(top[id])
                /\ ShownWidth(width'[id]) = ShownWidth(width[id])
                /\ ShownHeight(height'[id]) = ShownHeight(height[id])]_vars

\* ── C4 ───────────────────────────────────────────────────────────────────
\* C4: every pointer-move of a drag session applies a position inside the
\* clamp bounds: a window's left in [-width + 100, vw - 50] and top in
\* [0, vh - 48 - 40] (width: the panel's width when the move is handled), a
\* folder icon's left in [0, vw - 80] and top in [0, vh - 48 - 80].
C4_DragClamped ==
    [][\A p \in PointerMoves : PointerMove(p) =>
          \A id \in WindowIds :
             /\ windowDrag[id].isDragging =>
                   /\ IsSet(left'[id]) /\ IsSet(top'[id])
                   /\ left'[id][1] >= 2 * (-offsetWidth(Cur, id) + 100)
                   /\ left'[id][1] <= 2 * (vw - 50)
                   /\ top'[id][1] >= 0
                   /\ top'[id][1] <= 2 * (vh - 48 - 40)
             /\ folderDrag[id].isDragging =>
                   /\ folderPos'[id].left >= 0
                   /\ folderPos'[id].left <= vw - 80
                   /\ folderPos'[id].top >= 0
                   /\ folderPos'[id].top <= vh - 48 - 80]_vars

\* A window dragged far beyond the bottom right corner sits on both limits.
C4_Witness ==
    /\ windowDrag["A"].isDragging
    /\ left["A"] = <<2 * (vw - 50)>>
    /\ top["A"] = <<2 * (vh - 48 - 40)>>

\* ── C5 ───────────────────────────────────────────────────────────────────
\* C5: every pointer-move of a resize session applies the width
\* max(320, startWidth + dx) and the height max(200, startHeight + dy).
C5_ResizeFloor ==
    [][\A p \in PointerMoves : PointerMove(p) =>
          \A id \in WindowIds : windowResize[id].isResizing =>
             /\ width'[id] =
                   <<Max(320, windowResize[id].startW + (p[1] - windowResize[id].startX))>>
             /\ height'[id] =
                   <<Max(200, windowResize[id].startH + (p[2] - windowResize[id].startY))>>
             /\ width'[id][1] >= 320
             /\ height'[id][1] >= 200]_vars

\* A resize driven far below the floor sits at exactly 320 x 200.
C5_Witness ==
    /\ windowResize["A"].isResizing
    /\ windowResize["A"].startW > 320
    /\ width["A"] = <<320>>
    /\ height["A"] = <<200>>

\* ── C6 ───────────────────────────────────────────────────────────────────
\* The flag after a pointer-move at p of a folder session, for a threshold
\* test `reached`.
C6_FlagAfterMove(reached(_, _)) ==
    \A p \in PointerMoves : PointerMove(p) =>
       \A id \in WindowIds : folderDrag[id].isDragging =>
          (folderDrag'[id].hasMoved <=>
              \/ folderDrag[id].hasMoved
              \/ reached(p[1] - folderDrag[id].startX, p[2] - folderDrag[id].startY))

C6_AtLeastThree(dx, dy) == Abs(dx) >= 3 \/ Abs(dy) >= 3
C6_MoreThanThree(dx, dy) == Abs(dx) > 3 \/ Abs(dy) > 3

\* C6 as stated: the moved flag is set exactly when the displacement from the
\* start reaches 3px or more in either axis at some move.
C6_MovedAtThree == [][C6_FlagAfterMove(C6_AtLeastThree)]_vars

\* C6 amended: the moved flag is cleared by the pointer-down, set exactly when
\* the displacement exceeds 3px in either axis at some move (exactly 3px does
\* not count), and changed by nothing else; the click action opens the window
\* on a narrow viewport and does nothing on a wide one, flagged or not.
C6_MovedBeyondThree ==
    [][/\ C6_FlagAfterMove(C6_MoreThanThree)
       /\ \A id \in WindowIds :
             /\ (\E p \in PointerDowns : FolderPointerDown(id, p))
                => ~folderDrag'[id].hasMoved
             /\ folderDrag'[id].hasMoved # folderDrag[id].hasMoved
                => \/ \E p \in PointerMoves : PointerMove(p)
                   \/ \E p \in PointerDowns : FolderPointerDown(id, p)
             /\ FolderClick(id) =>
                   IF isMobile
                   THEN /\ RegHas(openWindows', id)
                        /\ display'[id] = "flex"
                        /\ active' = {id}
                   ELSE UNCHANGED domVars]_vars

\* A folder session whose pointer is exactly 3px from its start: the icon has
\* followed and the flag is not set.
C6_Witness ==
    /\ folderDrag["A"].isDragging
    /\ folderPos["A"].left = folderDrag["A"].origX + 3
    /\ folderPos["A"].top = folderDrag["A"].origY
    /\ ~folderDrag["A"].hasMoved

\* ── C7 ───────────────────────────────────────────────────────────────────
HoldsFocus(id) == id \in active /\ IsOpenVisible(id)

\* C7: a taskbar item is rendered active if and only if its window is the
\* active (topmost focused) window.
C7_TaskbarActiveIsFocused ==
    \A i \in 1..Len(taskbar) : taskbar[i].active <=> HoldsFocus(taskbar[i].id)

\* ── C8 ───────────────────────────────────────────────────────────────────
\* C8: after every step the taskbar lists exactly the identities of the
\* Registry, one item each, in Registry order; a step leaves that order as it
\* is, appends a newly opened identity at the end, or removes a closed one;
\* bringToFront and minimize / restore never reorder the items.
C8_TaskbarMirrorsRegistry ==
    [][/\ TaskbarIds' = RegistryIds'
       /\ \A i, j \in 1..Len(taskbar') : taskbar'[i].id = taskbar'[j].id => i = j
       /\ \/ TaskbarIds' = TaskbarIds
          \/ \E id \in WindowIds :
                ~isOpen(id) /\ FolderDblClick(id) /\ TaskbarIds' = Append(TaskbarIds, id)
          \/ \E id \in WindowIds :
                /\ ControlClick(id, "close")
                /\ TaskbarIds' = SelectSeq(TaskbarIds, LAMBDA e : e # id)
       /\ \A id \in WindowIds :
             (WindowPointerDown(id) \/ ControlClick(id, "minimize")
                 \/ (isOpen(id) /\ FolderDblClick(id)))
             => TaskbarIds' = TaskbarIds]_vars

\* A, B, C opened in this order, B brought to the front afterwards.
C8_Witness ==
    /\ TaskbarIds = <<"A", "B", "C">>
    /\ active = {"B"}
    /\ zIndex["B"] > zIndex["C"]
    /\ zIndex["C"] > zIndex["A"]

\* ── C9 ───────────────────────────────────────────────────────────────────
\* C9: a click on a taskbar item restores and focuses its window if it is
\* minimized, minimizes it if it is visible and marked active, and otherwise
\* only brings it to the front, the Registry unchanged.  Minimizing the active
\* window makes it minimized and its item inactive, so that one further click
\* on the item makes it visible and the active window again.
C9_Focused(id) ==
    /\ active' = {id}
    /\ highestZ' = highestZ + 1
    /\ zIndex'[id] = highestZ'

C9_Minimized(id) ==
    /\ display'[id] = "none"
    /\ RegHas(openWindows', id) /\ RegMinimized(openWindows', id)
    /\ RegistryIds' = RegistryIds
    /\ \A i \in 1..Len(taskbar') : taskbar'[i].id = id => ~taskbar'[i].active
    /\ highestZ' = highestZ /\ zIndex' = zIndex /\ active' = active

C9_TaskbarClick ==
    [][/\ \A i \in 1..Len(taskbar) : TaskbarClick(i) =>
             LET id == taskbar[i].id
             IN  IF isMinimized(id)
                 THEN /\ display'[id] = "flex"
                      /\ RegHas(openWindows', id) /\ ~RegMinimized(openWindows', id)
                      /\ RegistryIds' = RegistryIds
                      /\ C9_Focused(id)
                 ELSE IF id \in active
                 THEN C9_Minimized(id)
                 ELSE /\ openWindows' = openWindows
                      /\ display' = display
                      /\ C9_Focused(id)
       /\ \A id \in WindowIds :
             (ControlClick(id, "minimize") /\ id \in active) => C9_Minimized(id)]_vars

\* The active window A was minimized: it is minimized, still the one marked
\* active, and its item is inactive, while B stays visible.
C9_Witness ==
    /\ isMinimized("A")
    /\ active = {"A"}
    /\ IsOpenVisible("B")
    /\ \E i \in 1..Len(taskbar) : taskbar[i].id = "A" /\ ~taskbar[i].active

\* ── C10 ──────────────────────────────────────────────────────────────────
\* C10 as stated: minimize(id) on an identity without a Registry record leaves
\* the Registry, the taskbar and isOpen(id) unchanged.
C10_MinimizeClosedNoOp ==
    [][\A id \in WindowIds : (Control(id, "minimize") /\ ~isOpen(id)) =>
          /\ openWindows' = openWindows
          /\ taskbar' = taskbar
          /\ ~RegHas(openWindows', id)]_vars

\* C10 amended: minimize(id) on an identity without a Registry record adds the
\* record {minimized: true} at the end of the Registry (isOpen(id) becomes
\* true), the taskbar gains an inactive item for it and the panel stays
\* hidden; on an identity that is already Open-Minimized it changes nothing.
C10_MinimizeCreatesRecord ==
    [][\A id \in WindowIds : Control(id, "minimize") =>
          IF ~isOpen(id)
          THEN /\ openWindows' = Append(openWindows, [id |-> id, minimized |-> TRUE])
               /\ taskbar' = Append(taskbar, [id |-> id, active |-> FALSE])
               /\ display'[id] = "none"
               /\ UNCHANGED <<highestZ, zIndex, active, maximized, windowPositions>>
          ELSE IF isMinimized(id)
          THEN UNCHANGED domVars
          ELSE isMinimized(id)' /\ display'[id] = "none"]_vars

\* A was never opened (no stacking value was ever assigned to it) and has a
\* minimized Registry record and a taskbar item.
C10_Witness ==
    /\ zIndex["A"] = 0
    /\ isMinimized("A")
    /\ display["A"] = "none"
    /\ \E i \in 1..Len(taskbar) : taskbar[i].id = "A" /\ ~taskbar[i].active

\* ── C11 ──────────────────────────────────────────────────────────────────
\* C11: close(id) on an open window (visible or minimized, maximized or not)
\* leaves it Closed: the Registry record is removed, the panel is hidden and
\* no longer maximized, and SavedGeometry is as it was; a later open(id) does
\* not maximize it; no step ever removes a SavedGeometry record.
C11_CloseKeepsGeometry ==
    [][\A id \in WindowIds :
          /\ (isOpen(id) /\ Control(id, "close")) =>
                /\ ~RegHas(openWindows', id)
                /\ display'[id] = "none"
                /\ id \notin maximized'
                /\ windowPositions' = windowPositions
          /\ FolderDblClick(id) => maximized' = maximized
          /\ IsSet(windowPositions[id]) => IsSet(windowPositions'[id])]_vars

\* A was maximized (the only toggleMaximize call so far saved its geometry) and
\* then closed: the record is gone, the class is gone, the geometry is kept.
C11_Witness ==
    /\ IsClosed("A")
    /\ zIndex["A"] > 0
    /\ IsSet(windowPositions["A"])
    /\ "A" \notin maximized
    /\ toggles = 1

\* ── C12 ──────────────────────────────────────────────────────────────────
\* C12: the pointer-up that ends a window-drag session sets SavedGeometry[id]
\* to the position the window has at that moment (its inline left / top, as
\* the last move clamped them), and an open(id) from Closed on a non-narrow
\* viewport places the window at the SavedGeometry position.
C12_DragCommitsPosition ==
    [][/\ \A id \in WindowIds :
             ((\E ptr \in Pointers : PointerUp(ptr)) /\ windowDrag[id].isDragging) =>
                /\ IsSet(windowPositions'[id])
                /\ HalfPx(Val(windowPositions'[id]).x) = ShownPos(left[id])
                /\ HalfPx(Val(windowPositions'[id]).y) = ShownPos(top[id])
       /\ \A id \in WindowIds :
             (FolderDblClick(id) /\ ~isMobile /\ IsClosed(id) /\ IsSet(windowPositions[id])) =>
                /\ left'[id] = <<HalfPx(Val(windowPositions[id]).x)>>
                /\ top'[id] = <<HalfPx(Val(windowPositions[id]).y)>>]_vars

\* ── C13 ──────────────────────────────────────────────────────────────────
\* The open windows whose stacking value is the greatest among the open ones.
TopOpen == {id \in WindowIds : isOpen(id) /\ \A w \in WindowIds : isOpen(w) => zIndex[w] <= zIndex[id]}

\* C13: whenever a window is open, the windows marked active are exactly the
\* open window with the greatest stacking value, and a window that is not
\* open is never marked active.
C13_ActiveIsTopOpen ==
    /\ \A id \in active : isOpen(id)
    /\ openWindows # << >> => active = TopOpen

\* ── C14 ──────────────────────────────────────────────────────────────────
\* C14: a window that carries the maximized display state is Open-Visible.
C14_MaximizedIsVisible == \A id \in maximized : IsOpenVisible(id)

\* ── C19 ──────────────────────────────────────────────────────────────────
\* C19: a panel is displayed if and only if the Registry holds a record for
\* its identity with minimized = false.
C19_DisplayedIffVisibleRecord ==
    \A id \in WindowIds :
        display[id] = "flex" <=> (isOpen(id) /\ ~RegMinimized(openWindows, id))

\* A is displayed, B is minimized after having been maximized.
C19_Witness ==
    /\ IsOpenVisible("A")
    /\ isMinimized("B")
    /\ display["B"] = "none"
    /\ "B" \in maximized
    /\ zIndex["B"] > 0

\* ── C20 ──────────────────────────────────────────────────────────────────
\* C20: while a window stays maximized no step changes its SavedGeometry
\* record, and the restoring toggleMaximize puts the window at the recorded
\* geometry; together: the window returns to the geometry captured when it
\* was maximized, whatever drag and resize sessions went on in between.
C20_SavedKeptWhileMaximized ==
    [][\A id \in WindowIds :
          /\ (id \in maximized /\ id \in maximized') =>
                windowPositions'[id] = windowPositions[id]
          /\ (id \in maximized /\ IsSet(windowPositions[id]) /\ Control(id, "maximize")) =>
                /\ left'[id] = <<HalfPx(Val(windowPositions[id]).x)>>
                /\ top'[id] = <<HalfPx(Val(windowPositions[id]).y)>>
                /\ width'[id] = Val(windowPositions[id]).w
                /\ height'[id] = Val(windowPositions[id]).h]_vars

\* ── C17 ──────────────────────────────────────────────────────────────────
\* C17: open, close, minimize and toggleMaximize called with an identity
\* whose panel cannot be found change nothing: Registry, SavedGeometry, the
\* focus counter, the active marking, the taskbar and every panel stay as
\* they are.
C17_MissingPanelAborts ==
    [][\A id \in MissingIds :
          (FolderDblClick(id) \/ \E action \in Actions : Control(id, action))
          => UNCHANGED domVars]_vars

\* A toggleMaximize call has been made and no geometry was saved by it (a call
\* on A saves A's geometry): it was the call with the identity without panel,
\* made while A was open.
C17_Witness ==
    /\ toggles = 1
    /\ \A id \in WindowIds : ~IsSet(windowPositions[id])
    /\ maximized = {}
    /\ IsOpenVisible("A")

\* ── C15 ──────────────────────────────────────────────────────────────────
\* A session: whether it is Active and the geometry it drives.
SessionActive(k, id) ==
    CASE k = "folder" -> folderDrag[id].isDragging
      [] k = "titlebar" -> windowDrag[id].isDragging
      [] OTHER -> windowResize[id].isResizing
SessionGeometry(k, id) ==
    CASE k = "folder" -> <<folderPos[id].left, folderPos[id].top>>
      [] k = "titlebar" -> <<left[id], top[id]>>
      [] OTHER -> <<width[id], height[id]>>
SessionView(k, id) == <<SessionActive(k, id), SessionGeometry(k, id)>>

\* C15: while two pointers each hold a session on a different target, a
\* pointer-move or pointer-up of one pointer leaves the other pointer's
\* session Active and its geometry as it is.
C15_SessionsIndependent ==
    [][\A q \in Pointers, k \in Kinds, id \in WindowIds :
          (/\ SessionActive(k, id)
           /\ capture[k][id] \notin {0, q}
           /\ Holds(q)
           /\ \/ PointerUp(q)
              \/ \E p \in SessionMoves : p[3] = q /\ PointerMove(p))
          => SessionView(k, id)' = SessionView(k, id)]_vars

\* ── C18 ──────────────────────────────────────────────────────────────────
\* C18: every scheduled startup open fires, and fires once (an identity never
\* becomes pending again); whatever the user did to the window before, the
\* step in which it fires leaves the window Open-Visible, with exactly one
\* Registry record, and the only window marked active.
C18_AutoOpenFires ==
    /\ [][\A id \in WindowIds :
             /\ id \notin timers => id \notin timers'
             /\ (id \in timers /\ id \notin timers') =>
                   /\ TimerFire(id)
                   /\ display'[id] = "flex"
                   /\ Cardinality({i \in 1..Len(openWindows') : openWindows'[i].id = id}) = 1
                   /\ ~RegMinimized(openWindows', id)
                   /\ active' = {id}
                   /\ zIndex'[id] = highestZ']_vars
    /\ \A id \in DefaultIds : <>(id \notin timers)

\* A's scheduled open has fired and A is displayed, active and on top; the
\* user has opened A as well and has maximized it.
C18_Witness ==
    /\ "A" \notin timers
    /\ IsOpenVisible("A")
    /\ active = {"A"}
    /\ "A" \in maximized
    /\ toggles = 1
    /\ zIndex["A"] = highestZ
    /\ highestZ = InitialZ + 2

\* ── C16 ──────────────────────────────────────────────────────────────────
\* C16: on a non-narrow viewport a window opened for the first time, with n
\* records in the Registry, is placed at x = max(40, (W - 600)/2 + 30 n),
\* y = max(20, (H - 48 - 450)/2 + 30 n) (600 x 450: the size the script
\* assumes for a panel that is not displayed), and that position lies inside
\* the work area: x < W and y < H - 48.  (Positions in half pixels.)
C16_CascadeInside ==
    [][\A id \in WindowIds :
          (/\ FolderDblClick(id)
           /\ ~isMobile
           /\ IsClosed(id)
           /\ zIndex[id] = 0
           /\ ~IsSet(windowPositions[id]))
          => LET n == Len(openWindows)
                 x == Max(HalfPx(40), (vw - 600) + HalfPx(30 * n))
                 y == Max(HalfPx(20), (vh - 48 - 450) + HalfPx(30 * n))
             IN  /\ left'[id] = <<x>>
                 /\ top'[id] = <<y>>
                 /\ x < HalfPx(vw)
                 /\ y < HalfPx(vh - 48)]_vars

====
